---- MODULE Spec2Model ----
(***************************************************************************)
(* A model of tidepool-org/ble-glucose (src/index.js): the bluetoothLE     *)
(* session object, its record store, the RACP command methods and the      *)
(* three notification handlers, with the binary decoders they call.        *)
(*                                                                         *)
(* A buffer (a DataView) is a sequence of bytes; byte i of the DataView    *)
(* (0-based) is element i+1 of the sequence.                               *)
(***************************************************************************)
EXTENDS Integers, Sequences, FiniteSets, TLC

(***************************************************************************)
(* Bounds of the model.                                                    *)
(***************************************************************************)
\* sequence numbers the modelled device uses in its notifications: 1..MaxSeqNum
MaxSeqNum == 2
\* calls (command methods and handlers) in one behaviour of Spec
MaxSteps == 5
\* calls in one behaviour of SpecStore
MaxStoreSteps == 6
\* calls in one behaviour of SpecObjects
MaxObjectSteps == 4
\* sequence numbers of SpecStore's notifications: 1..MaxStoreSeqNum
MaxStoreSeqNum == 3

(***************************************************************************)
(* DataView: reads past the end of the buffer throw a RangeError.          *)
(***************************************************************************)
\* a read of `width` bytes at 0-based `index` lies inside the buffer
inRange(buf, index, width) == index + width <= Len(buf)

getUint8(buf, index) == buf[index + 1]

\* getUint16(index, true): little-endian
getUint16(buf, index) == buf[index + 1] + 256 * buf[index + 2]

\* getInt16(index, true): little-endian, two's complement
getInt16(buf, index) ==
    LET u == getUint16(buf, index)
    IN  IF u >= 32768 THEN u - 65536 ELSE u

\* setUint16(index, v, true): the two bytes written, low byte first
setUint16(v) == << v % 256, (v \div 256) % 256 >>

(***************************************************************************)
(* Flag tables.                                                            *)
(***************************************************************************)
TIME_OFFSET_PRESENT == 1
GLUCOSE_PRESENT == 2
IS_MMOL == 4
STATUS_PRESENT == 8
CONTEXT_INFO == 16

CARBS == 1
MEAL == 2
EXTENDED == 128

\* flag.value & v, for the single-bit values of the tables
hasFlag(flag, v) == (v \div flag) % 2 = 1

(***************************************************************************)
(* getSFLOAT: a number is kept as the pair the code multiplies out,        *)
(* mantissa * 10^exponent.                                                 *)
(***************************************************************************)
Units == {"mg/dL", "mmol/L"}

\* a decoder that checks the unit before the reserved patterns
getSFLOATUnitsFirst(value, units) ==
    IF units \notin Units
    THEN [kind |-> "Error", message |-> "Illegal units for glucose value"]
    ELSE CASE value \in {2047, 2048, 2049} -> [kind |-> "NaN"]
           [] value = 2046 -> [kind |-> "+Infinity"]
           [] value = 2050 -> [kind |-> "-Infinity"]
           [] OTHER ->
                [kind |-> "number",
                 mantissa |-> IF value % 4096 >= 2048
                              THEN (value % 4096) - 4096 ELSE value % 4096,
                 exponent |-> (IF value \div 4096 >= 8
                               THEN (value \div 4096) - 16 ELSE value \div 4096)
                              + (IF units = "mg/dL" THEN 5 ELSE 3)]

\* a decoder that takes any unit other than mg/dL for mmol/L
getSFLOATAnyUnit(value, units) ==
    CASE value \in {2047, 2048, 2049} -> [kind |-> "NaN"]
      [] value = 2046 -> [kind |-> "+Infinity"]
      [] value = 2050 -> [kind |-> "-Infinity"]
      [] OTHER ->
           [kind |-> "number",
            mantissa |-> IF value % 4096 >= 2048
                         THEN (value % 4096) - 4096 ELSE value % 4096,
            exponent |-> (IF value \div 4096 >= 8
                          THEN (value \div 4096) - 16 ELSE value \div 4096)
                         + (IF units = "mg/dL" THEN 5 ELSE 3)]

\* a decoder that reads the exponent as unsigned
getSFLOATUnsignedExponent(value, units) ==
    CASE value \in {2047, 2048, 2049} -> [kind |-> "NaN"]
      [] value = 2046 -> [kind |-> "+Infinity"]
      [] value = 2050 -> [kind |-> "-Infinity"]
      [] OTHER ->
           IF units \notin Units
           THEN [kind |-> "Error", message |-> "Illegal units for glucose value"]
           ELSE [kind |-> "number",
                 mantissa |-> IF value % 4096 >= 2048
                              THEN (value % 4096) - 4096 ELSE value % 4096,
                 exponent |-> (value \div 4096) + (IF units = "mg/dL" THEN 5 ELSE 3)]

getSFLOAT(value, units) ==
    CASE value = 2047 -> [kind |-> "NaN"]
      [] value = 2048 -> [kind |-> "NaN"]
      [] value = 2046 -> [kind |-> "+Infinity"]
      [] value = 2050 -> [kind |-> "-Infinity"]
      [] value = 2049 -> [kind |-> "NaN"]
      [] OTHER ->
           LET exponent0 == value \div 4096
               mantissa0 == value % 4096
               exponent1 == IF exponent0 >= 8 THEN -((15 + 1) - exponent0) ELSE exponent0
               mantissa == IF mantissa0 >= 2048 THEN -((4095 + 1) - mantissa0) ELSE mantissa0
           IN  IF units = "mg/dL"
               THEN [kind |-> "number", mantissa |-> mantissa, exponent |-> exponent1 + 5]
               ELSE IF units = "mmol/L"
               THEN [kind |-> "number", mantissa |-> mantissa, exponent |-> exponent1 + 3]
               ELSE [kind |-> "Error", message |-> "Illegal units for glucose value"]

(***************************************************************************)
(* sundial.buildTimestamp is a library call: the timestamp is kept as the  *)
(* date-time fields it is built from.                                      *)
(***************************************************************************)
buildTimestamp(dateTime) ==
    << dateTime.year, dateTime.month, dateTime.day,
       dateTime.hours, dateTime.minutes, dateTime.seconds >>

(***************************************************************************)
(* parseGlucoseMeasurement                                                 *)
(***************************************************************************)
\* the flags byte, once it has been read
measurementFlags(result) == IF Len(result) >= 1 THEN getUint8(result, 0) ELSE 0

\* the running offset after the optional time offset
measurementOffset(result) ==
    IF hasFlag(TIME_OFFSET_PRESENT, measurementFlags(result)) THEN 2 ELSE 0

\* a parser that reads the status whenever its flag is set
measurementReadsStatusAlone(result) ==
    LET flags == measurementFlags(result)
        offset == measurementOffset(result)
    IN  {<<0, 1>>, <<1, 2>>, <<3, 2>>, <<5, 1>>, <<6, 1>>, <<7, 1>>, <<8, 1>>, <<9, 1>>}
        \cup (IF hasFlag(TIME_OFFSET_PRESENT, flags) THEN {<<10, 2>>} ELSE {})
        \cup (IF hasFlag(GLUCOSE_PRESENT, flags)
              THEN {<<offset + 10, 2>>, <<offset + 12, 1>>} ELSE {})
        \cup (IF hasFlag(STATUS_PRESENT, flags) THEN {<<offset + 13, 2>>} ELSE {})

\* the DataView reads the parser performs, as <<index, width>>, for these flags
measurementReads(result) ==
    LET flags == measurementFlags(result)
        offset == measurementOffset(result)
    IN  {<<0, 1>>, <<1, 2>>, <<3, 2>>, <<5, 1>>, <<6, 1>>, <<7, 1>>, <<8, 1>>, <<9, 1>>}
        \cup (IF hasFlag(TIME_OFFSET_PRESENT, flags) THEN {<<10, 2>>} ELSE {})
        \cup (IF hasFlag(GLUCOSE_PRESENT, flags)
              THEN {<<offset + 10, 2>>, <<offset + 12, 1>>}
                   \cup (IF hasFlag(STATUS_PRESENT, flags)
                         THEN {<<offset + 13, 2>>} ELSE {})
              ELSE {})

\* some read of the parser throws a RangeError
measurementThrows(result) ==
    \E r \in measurementReads(result) : ~inRange(result, r[1], r[2])

\* result.getUint8(offset + 12) && 0x0F: a logical AND
sampleLocation(byte) == IF byte = 0 THEN 0 ELSE 15

\* result.getUint8(offset + 12) >> 4
sampleType(byte) == byte \div 16

\* the parser of the earlier revision, which applies the time offset (in
\* minutes) to the timestamp and does not correct the month
parseGlucoseMeasurementApplyOffset(result) ==
    LET flags == getUint8(result, 0)
        dateTime == [year |-> getUint16(result, 3),
                     month |-> getUint8(result, 5),
                     day |-> getUint8(result, 6),
                     hours |-> getUint8(result, 7),
                     minutes |-> getUint8(result, 8),
                     seconds |-> getUint8(result, 9)]
        offset == measurementOffset(result)
        units == IF hasFlag(IS_MMOL, flags) THEN "mmol/L" ELSE "mg/dL"
        base == [flags |-> flags, seqNum |-> getUint16(result, 1)]
        withTimestamp ==
            IF hasFlag(TIME_OFFSET_PRESENT, flags)
            THEN base @@
                 [payload |-> [internalTime |-> buildTimestamp(dateTime),
                               timeOffset |-> getInt16(result, 10)],
                  timestamp |-> buildTimestamp(
                      [dateTime EXCEPT !.minutes = @ + getInt16(result, 10)])]
            ELSE base @@ [timestamp |-> buildTimestamp(dateTime)]
        withGlucose ==
            IF hasFlag(GLUCOSE_PRESENT, flags)
            THEN withTimestamp @@
                 [units |-> units,
                  value |-> getSFLOAT(getUint16(result, offset + 10), units),
                  type |-> sampleType(getUint8(result, offset + 12)),
                  location |-> sampleLocation(getUint8(result, offset + 12))]
            ELSE withTimestamp
    IN  IF hasFlag(GLUCOSE_PRESENT, flags) /\ hasFlag(STATUS_PRESENT, flags)
        THEN withGlucose @@ [status |-> getUint16(result, offset + 13)]
        ELSE withGlucose

parseGlucoseMeasurement(result) ==
    LET flags == getUint8(result, 0)
        month0 == getUint8(result, 5)
        dateTime == [year |-> getUint16(result, 3),
                     month |-> IF month0 = 13 THEN 1 ELSE month0,
                     day |-> getUint8(result, 6),
                     hours |-> getUint8(result, 7),
                     minutes |-> getUint8(result, 8),
                     seconds |-> getUint8(result, 9)]
        offset == measurementOffset(result)
        units == IF hasFlag(IS_MMOL, flags) THEN "mmol/L" ELSE "mg/dL"
        base == [flags |-> flags,
                 seqNum |-> getUint16(result, 1),
                 timestamp |-> buildTimestamp(dateTime),
                 hasContext |-> hasFlag(CONTEXT_INFO, flags)]
        withPayload ==
            IF hasFlag(TIME_OFFSET_PRESENT, flags)
            THEN base @@ [payload |-> [internalTime |-> buildTimestamp(dateTime),
                                       timeOffset |-> getInt16(result, 10)]]
            ELSE base
        withGlucose ==
            IF hasFlag(GLUCOSE_PRESENT, flags)
            THEN withPayload @@
                 [units |-> units,
                  value |-> getSFLOAT(getUint16(result, offset + 10), units),
                  type |-> sampleType(getUint8(result, offset + 12)),
                  location |-> sampleLocation(getUint8(result, offset + 12))]
            ELSE withPayload
    IN  IF hasFlag(GLUCOSE_PRESENT, flags) /\ hasFlag(STATUS_PRESENT, flags)
        THEN withGlucose @@ [status |-> getUint16(result, offset + 13)]
        ELSE withGlucose

(***************************************************************************)
(* parseMeasurementContext                                                 *)
(***************************************************************************)
contextFlags(result) == IF Len(result) >= 1 THEN getUint8(result, 0) ELSE 0

\* the running offset before the carbohydrate group
carbOffset(result) == IF hasFlag(EXTENDED, contextFlags(result)) THEN 3 + 1 ELSE 3

\* the running offset before the meal byte: the carbohydrate group advances it by 2
mealOffset(result) ==
    IF hasFlag(CARBS, contextFlags(result))
    THEN carbOffset(result) + 2
    ELSE carbOffset(result)

contextReads(result) ==
    LET flags == contextFlags(result)
    IN  {<<0, 1>>, <<1, 2>>}
        \cup (IF hasFlag(EXTENDED, flags) THEN {<<3, 1>>} ELSE {})
        \cup (IF hasFlag(CARBS, flags)
              THEN {<<carbOffset(result), 1>>, <<carbOffset(result) + 1, 2>>} ELSE {})
        \cup (IF hasFlag(MEAL, flags) THEN {<<mealOffset(result), 1>>} ELSE {})

contextThrows(result) ==
    \E r \in contextReads(result) : ~inRange(result, r[1], r[2])

parseMeasurementContext(result) ==
    LET flags == getUint8(result, 0)
        base == [flags |-> flags, seqNum |-> getUint16(result, 1)]
        withExtended ==
            IF hasFlag(EXTENDED, flags)
            THEN base @@ [extended |-> getUint8(result, 3)]
            ELSE base
        withCarbs ==
            IF hasFlag(CARBS, flags)
            THEN withExtended @@
                 [carbID |-> getUint8(result, carbOffset(result)),
                  carbUnits |-> getUint16(result, carbOffset(result) + 1)]
            ELSE withExtended
    IN  IF hasFlag(MEAL, flags)
        THEN withCarbs @@ [meal |-> getUint8(result, mealOffset(result))]
        ELSE withCarbs

(***************************************************************************)
(* The inputs of the model: what the device sends.                         *)
(***************************************************************************)
\* a glucose measurement notification: glucose present, mg/dL, no time offset
measurementBuffer(seqNum) ==
    << GLUCOSE_PRESENT >> \o setUint16(seqNum) \o setUint16(2020)
       \o << 1, 2, 3, 4, 5 >> \o << 100, 176 >> \o << 17 >>

\* the same notification cut one byte short: its type/location byte is missing
shortMeasurementBuffer == SubSeq(measurementBuffer(1), 1, 12)

\* a context notification carrying a meal code
contextBuffer(seqNum) == << MEAL >> \o setUint16(seqNum) \o << 1 >>

\* the same notification without its meal byte
shortContextBuffer == SubSeq(contextBuffer(1), 1, 3)

SeqNums == 1..MaxSeqNum

\* the sequence number the caller passes to the two "since" commands: one
\* that needs both bytes of its little-endian encoding
DeltaSeqNums == {256 + MaxSeqNum}

MeasurementBuffers ==
    {measurementBuffer(n) : n \in SeqNums} \cup {shortMeasurementBuffer}

ContextBuffers == {contextBuffer(n) : n \in SeqNums} \cup {shortContextBuffer}

\* RACP indications: op code, operator, operand (low byte first)
RACPBuffers ==
    { << 5, 0, 42, 0 >>,    \* number of stored records: 42
      << 6, 0, 1, 1 >>,     \* response code, operand 0x0101: success
      << 6, 0, 1, 6 >>,     \* response code, operand 0x0601: no records found
      << 6, 0, 1, 2 >>,     \* response code, operand 0x0201: op code not supported
      << 9, 0, 0, 0 >>,     \* an op code the handler does not know
      << 6, 0, 1 >> }       \* an indication cut short

(***************************************************************************)
(* State.                                                                  *)
(*                                                                         *)
(* Program state: the module-level `self`, each session object's          *)
(* `records` and `contextRecords` (references to arrays on the heap), the  *)
(* events dispatched on each object, and the commands written to each      *)
(* object's RACP characteristic and not yet answered by the device.        *)
(*                                                                         *)
(* History kept for stating properties: the records decoded by the         *)
(* handlers since the store was last replaced, a description of the last   *)
(* step, and the counters that bound a behaviour.                          *)
(***************************************************************************)
VARIABLES self, records, contextRecords, heap, events, written,
          measurementsSince, contextsSince, last, count, session, call

vars == << self, records, contextRecords, heap, events, written,
           measurementsSince, contextsSince, last, count, session, call >>

\* session objects that may be constructed
NumSessions == 2
Sessions == 1..NumSessions

\* the reference held by a field of an object that was not constructed
NoRef == 0

\* the objects constructed so far
Constructed == {o \in Sessions : records[o] # NoRef}

\* the store of the object the handlers reach through `self`
Records == heap[records[self]]
ContextRecords == heap[contextRecords[self]]

SeqNumsOf(s) == [i \in 1..Len(s) |-> s[i].seqNum]

NoStep == [op |-> "none", this |-> 0, value |-> << >>, threw |-> "",
           dispatched |-> << >>, recordsBefore |-> << >>,
           contextBefore |-> << >>, eventsBefore |-> << >>, pending |-> << >>]

\* the description of a step by object/device `this` with input `value`
Step(op, this, value, threw, dispatched) ==
    [op |-> op, this |-> this, value |-> value, threw |-> threw,
     dispatched |-> dispatched, recordsBefore |-> Records,
     contextBefore |-> ContextRecords, eventsBefore |-> events[self],
     pending |-> written[this]]

(***************************************************************************)
(* The connection lifecycle of one session object and its device.          *)
(*                                                                         *)
(* `session` holds the object's fields (device, the three characteristic   *)
(* handles), what the transport holds (gatt.connected, the characteristics *)
(* that notify, the listeners attached to them), the position of the two   *)
(* async methods connect and disconnect at their awaits, the promise of    *)
(* connectTimeout and its timer, and a history of what ran.                *)
(***************************************************************************)
\* the three characteristics, in the order disconnect cleans them up
Characteristics == << "glucoseMeasurement", "glucoseMeasurementContext", "racp" >>

CharacteristicNames == {Characteristics[i] : i \in 1..Len(Characteristics)}

\* the awaits of connect, in program order
ConnectAwaits ==
    << "gatt.connect",
       "getPrimaryService(device_information)",
       "getPrimaryService(glucose)",
       "getCharacteristic(glucose_feature)",
       "glucoseFeature.readValue",
       "getCharacteristic(glucose_measurement)",
       "glucoseMeasurement.startNotifications",
       "getCharacteristic(glucose_measurement_context)",
       "glucoseMeasurementContext.startNotifications",
       "getCharacteristic(record_access_control_point)",
       "racp.startNotifications" >>

\* the fields of a session object after construction, no device selected
NewSession ==
    [device |-> FALSE,                       \* this.device is set
     connected |-> FALSE,                    \* this.device.gatt.connected
     glucoseMeasurement |-> "undefined",     \* the three handles
     glucoseMeasurementContext |-> "undefined",
     racp |-> "undefined",
     notifying |-> {},                       \* characteristics that notify
     listeners |-> {},                       \* characteristics with connect's listener attached
     promise |-> "none",                     \* the promise connectTimeout returned
     timer |-> FALSE,                        \* the setTimeout of timeout() is armed
     connectAt |-> "",                       \* the await connect is suspended at
     disconnectAt |-> "",                    \* the characteristic disconnect awaits
     late |-> {},                            \* awaits connect resumed from after the timeout
     done |-> "",                            \* the call the last step completed
     transport |-> FALSE,                    \* the last disconnect called gatt.disconnect()
     threw |-> "",                           \* what the last completed disconnect threw
     row |-> 0,                              \* disconnects completed in a row
     alone |-> TRUE]                         \* no connect in flight during the last disconnect

(***************************************************************************)
(* A call of one of the decoders: its arguments and, once it has run, its  *)
(* result.                                                                 *)
(***************************************************************************)
NoCall == [fn |-> "none"]

\* new bluetoothLE(): this.records = []; this.contextRecords = []; self = this
constructor ==
    /\ self = 1
    /\ heap = << << >>, << >> >>
    /\ records = [o \in Sessions |-> IF o = 1 THEN 1 ELSE NoRef]
    /\ contextRecords = [o \in Sessions |-> IF o = 1 THEN 2 ELSE NoRef]
    /\ events = [o \in Sessions |-> << >>]
    /\ written = [o \in Sessions |-> << >>]
    /\ measurementsSince = << >>
    /\ contextsSince = << >>
    /\ last = NoStep
    /\ count = [steps |-> 0, retrieves |-> 0]
    /\ session = NewSession

\* the state after construction, before any decoder is called
Init == constructor /\ call = NoCall

(***************************************************************************)
(* new bluetoothLE(), for an object o not constructed yet: the object gets *)
(* its two empty arrays and the module-level self is set to it.            *)
(***************************************************************************)
newBluetoothLE(o) ==
    /\ o \in Sessions \ Constructed
    /\ heap' = heap \o << << >>, << >> >>
    /\ records' = [records EXCEPT ![o] = Len(heap) + 1]
    /\ contextRecords' = [contextRecords EXCEPT ![o] = Len(heap) + 2]
    /\ self' = o
    /\ measurementsSince' = << >>
    /\ contextsSince' = << >>
    /\ last' = Step("constructor", o, << >>, "", << >>)
    /\ count' = [count EXCEPT !.steps = @ + 1]
    /\ UNCHANGED << events, written, session, call >>

(***************************************************************************)
(* The command methods.                                                    *)
(***************************************************************************)
\* a sendCommand that writes only when the device holds no earlier command
sendCommandWhenIdle(this, cmd, ok) ==
    written' = IF ok /\ written[this] = << >>
               THEN [written EXCEPT ![this] = Append(@, cmd)]
               ELSE written

\* sendCommand: this.racp.writeValueWithResponse(cmd) resolves (ok) and the
\* device holds the command, or rejects and the caller gets the error
sendCommand(this, cmd, ok) ==
    written' = IF ok THEN [written EXCEPT ![this] = Append(@, cmd)] ELSE written

writeOutcome(ok) == IF ok THEN "" ELSE "NetworkError"

\* the 5-byte command built by getDeltaNumberOfRecords and getDeltaRecords
deltaCommand(opCode, seqNum) == << opCode, 3, 1 >> \o setUint16(seqNum)

\* a reset that replaces the measurement array alone
resetStoreRecordsOnly ==
    /\ heap' = heap \o << << >> >>
    /\ records' = [records EXCEPT ![self] = Len(heap) + 1]
    /\ UNCHANGED contextRecords
    /\ measurementsSince' = << >>
    /\ contextsSince' = << >>

\* a reset that empties the two arrays in place
resetStoreInPlace ==
    /\ heap' = [heap EXCEPT ![records[self]] = << >>,
                            ![contextRecords[self]] = << >>]
    /\ UNCHANGED << records, contextRecords >>
    /\ measurementsSince' = << >>
    /\ contextsSince' = << >>

\* self.records = []; self.contextRecords = []
resetStore ==
    /\ heap' = heap \o << << >>, << >> >>
    /\ records' = [records EXCEPT ![self] = Len(heap) + 1]
    /\ contextRecords' = [contextRecords EXCEPT ![self] = Len(heap) + 2]
    /\ measurementsSince' = << >>
    /\ contextsSince' = << >>

keepStore ==
    UNCHANGED << heap, records, contextRecords, measurementsSince, contextsSince >>

getNumberOfRecords(this, ok) ==
    /\ keepStore
    /\ sendCommand(this, << 4, 1 >>, ok)
    /\ last' = Step("getNumberOfRecords", this, << 4, 1 >>, writeOutcome(ok), << >>)
    /\ count' = [count EXCEPT !.steps = @ + 1]
    /\ UNCHANGED << self, events, session, call >>

getDeltaNumberOfRecords(this, seqNum, ok) ==
    /\ keepStore
    /\ sendCommand(this, deltaCommand(4, seqNum), ok)
    /\ last' = Step("getDeltaNumberOfRecords", this, deltaCommand(4, seqNum),
                    writeOutcome(ok), << >>)
    /\ count' = [count EXCEPT !.steps = @ + 1]
    /\ UNCHANGED << self, events, session, call >>

getAllRecords(this, ok) ==
    /\ resetStore
    /\ sendCommand(this, << 1, 1 >>, ok)
    /\ last' = Step("getAllRecords", this, << 1, 1 >>, writeOutcome(ok), << >>)
    /\ count' = [count EXCEPT !.steps = @ + 1, !.retrieves = @ + 1]
    /\ UNCHANGED << self, events, session, call >>

getDeltaRecords(this, seqNum, ok) ==
    /\ resetStore
    /\ sendCommand(this, deltaCommand(1, seqNum), ok)
    /\ last' = Step("getDeltaRecords", this, deltaCommand(1, seqNum),
                    writeOutcome(ok), << >>)
    /\ count' = [count EXCEPT !.steps = @ + 1, !.retrieves = @ + 1]
    /\ UNCHANGED << self, events, session, call >>

(***************************************************************************)
(* The notification handlers.  `dev` is the object whose characteristic    *)
(* delivers the notification; the handlers reach the session through       *)
(* `self`.                                                                 *)
(***************************************************************************)
\* an unshift in place of the push
pushFront(ref, parsed) == heap' = [heap EXCEPT ![ref] = << parsed >> \o @]

\* self.contextRecords.push(parsed) / self.records.push(parsed)
push(ref, parsed) == heap' = [heap EXCEPT ![ref] = Append(@, parsed)]

\* a de-duplication that scans every stored record instead of the last one
isNewEntryAnywhere(parsed, stored) ==
    \A i \in 1..Len(stored) : parsed.seqNum # stored[i].seqNum

\* this.parsed.seqNum !== self.records[self.records.length-1]?.seqNum
isNewEntry(parsed, stored) ==
    \/ Len(stored) = 0
    \/ parsed.seqNum # stored[Len(stored)].seqNum

handleContextNotifications(dev, value) ==
    /\ count' = [count EXCEPT !.steps = @ + 1]
    /\ IF contextThrows(value)
       THEN /\ last' = Step("handleContextNotifications", dev, value, "RangeError", << >>)
            /\ UNCHANGED << heap, contextsSince >>
       ELSE /\ last' = Step("handleContextNotifications", dev, value, "", << >>)
            /\ push(contextRecords[self], parseMeasurementContext(value))
            /\ contextsSince' = Append(contextsSince, parseMeasurementContext(value))
    /\ UNCHANGED << self, records, contextRecords, events, written, measurementsSince,
                    session, call >>

handleNotifications(dev, value) ==
    /\ count' = [count EXCEPT !.steps = @ + 1]
    /\ IF measurementThrows(value)
       THEN /\ last' = Step("handleNotifications", dev, value, "RangeError", << >>)
            /\ UNCHANGED << heap, measurementsSince >>
       ELSE /\ last' = Step("handleNotifications", dev, value, "", << >>)
            /\ measurementsSince' = Append(measurementsSince, parseGlucoseMeasurement(value))
            /\ IF isNewEntry(parseGlucoseMeasurement(value), Records)
               THEN push(records[self], parseGlucoseMeasurement(value))
               ELSE UNCHANGED heap
    /\ UNCHANGED << self, records, contextRecords, events, written, contextsSince,
                    session, call >>

\* the reads that build this.racpObject
racpReads == {<<0, 1>>, <<1, 1>>, <<2, 2>>}

\* the operand read without the little-endian argument
racpObjectBigEndian(value) ==
    [opCode |-> getUint8(value, 0),
     operator |-> getUint8(value, 1),
     operand |-> 256 * getUint8(value, 2) + getUint8(value, 3)]

racpObject(value) ==
    [opCode |-> getUint8(value, 0),
     operator |-> getUint8(value, 1),
     operand |-> getUint16(value, 2)]

\* new CustomEvent('numberOfRecords', { detail: operand })
numberOfRecordsEvent(operand) ==
    [type |-> "numberOfRecords", detail |-> [number |-> operand]]

\* the two properties of the detail exchanged
dataEventSwapped ==
    [type |-> "data",
     detail |-> [records |-> contextRecords[self], contextRecords |-> records[self]]]

\* new CustomEvent('data', { detail: { records: self.records,
\*                                     contextRecords: self.contextRecords } })
dataEvent ==
    [type |-> "data",
     detail |-> [records |-> records[self], contextRecords |-> contextRecords[self]]]

\* new CustomEvent('data', { detail: [] })
noRecordsEvent == [type |-> "data", detail |-> [array |-> << >>]]

\* a switch whose default case breaks instead of throwing
racpThrowsSilentDefault(value) ==
    IF \E r \in racpReads : ~inRange(value, r[1], r[2]) THEN "RangeError" ELSE ""

\* what handleRACP throws for this indication ("" when it returns normally)
racpThrows(value) ==
    IF \E r \in racpReads : ~inRange(value, r[1], r[2])
    THEN "RangeError"
    ELSE IF racpObject(value).opCode \in {5, 6} THEN "" ELSE "Unrecognized op code"

\* the events handleRACP dispatches on self for this indication, in order
racpDispatches(value) ==
    IF racpThrows(value) # ""
    THEN << >>
    ELSE IF racpObject(value).opCode = 5
         THEN << numberOfRecordsEvent(racpObject(value).operand) >>
         ELSE IF racpObject(value).operand = 257
              THEN << dataEvent >>
              ELSE IF racpObject(value).operand = 1537
                   THEN << noRecordsEvent >>
                   ELSE << >>

\* the device's indication answers the oldest command it still holds
answer(dev) ==
    written' = [written EXCEPT ![dev] = IF @ = << >> THEN @ ELSE Tail(@)]

handleRACP(dev, value) ==
    /\ count' = [count EXCEPT !.steps = @ + 1]
    /\ answer(dev)
    /\ events' = [events EXCEPT ![self] = @ \o racpDispatches(value)]
    /\ last' = Step("handleRACP", dev, value, racpThrows(value), racpDispatches(value))
    /\ UNCHANGED << self, records, contextRecords, heap,
                    measurementsSince, contextsSince, session, call >>

(***************************************************************************)
(* scan, connectTimeout / connect, disconnect.                             *)
(*                                                                         *)
(* connect and disconnect are async: each runs to its next await in one    *)
(* step and is resumed by the transport with the outcome of the awaited    *)
(* call (ok: resolved, otherwise rejected).  A call on a characteristic    *)
(* resolves only while the device is connected.                            *)
(***************************************************************************)
\* disconnect calls that may complete in a row
MaxDisconnects == 2

storeVars == << self, records, contextRecords, heap, events, written,
                measurementsSince, contextsSince, last, count, call >>

\* this.<member> on a session object: handleNotifications and handleRACP are
\* methods of the prototype, handleContextNotifications is static and so is
\* not a property of the object
instanceMember(member) ==
    IF member = "handleContextNotifications"
    THEN "undefined"
    ELSE "bluetoothLE.prototype." \o member

\* bluetoothLE.<member>
staticMember(member) ==
    IF member = "handleContextNotifications"
    THEN "bluetoothLE." \o member
    ELSE "undefined"

\* characteristic.addEventListener('characteristicvaluechanged', callback)
addEventListener(listeners, characteristic, callback) ==
    IF callback = "undefined"
    THEN listeners
    ELSE listeners \cup {<< characteristic, callback >>}

\* characteristic.removeEventListener('characteristicvaluechanged', callback)
removeEventListener(listeners, characteristic, callback) ==
    listeners \ {<< characteristic, callback >>}

\* the listener connect registers on each characteristic
registered(characteristic) ==
    CASE characteristic = "glucoseMeasurement" -> instanceMember("handleNotifications")
      [] characteristic = "glucoseMeasurementContext" ->
           staticMember("handleContextNotifications")
      [] characteristic = "racp" -> instanceMember("handleRACP")

\* the listener disconnect asks to remove from each characteristic
unregistered(characteristic) ==
    CASE characteristic = "glucoseMeasurement" -> instanceMember("handleNotifications")
      [] characteristic = "glucoseMeasurementContext" ->
           instanceMember("handleContextNotifications")
      [] characteristic = "racp" -> instanceMember("handleRACP")

\* the characteristics that still have a listener attached
Attached(s) == {l[1] : l \in s.listeners}

\* a step that is no part of a disconnect
noted(s, done) == [s EXCEPT !.done = done, !.row = 0]

\* scan: this.device = await Promise.race([timeout(15000), requestDevice(options)])
scan(ok) ==
    /\ ~session.device
    /\ session' = noted([session EXCEPT !.device = ok], "scan")
    /\ UNCHANGED storeVars

\* connect returns or throws: the race of connectTimeout settles with its
\* outcome unless the timer settled it before
settle(s, outcome) ==
    [s EXCEPT !.connectAt = "",
              !.done = "connect",
              !.promise = IF @ = "pending" THEN outcome ELSE @]

\* connectTimeout: Promise.race([this.connect(), bluetoothLE.timeout(timeout)]);
\* connect runs to its first await, this.device.gatt.connect()
connectTimeout ==
    /\ session.promise = "none"
    /\ session' =
         IF session.device
         THEN noted([session EXCEPT !.promise = "pending",
                                    !.timer = TRUE,
                                    !.connectAt = ConnectAwaits[1]], "")
         ELSE noted([session EXCEPT !.promise = "TypeError", !.timer = TRUE],
                    "connect")
    /\ UNCHANGED storeVars

\* setTimeout(reject, delay, new Error('Timeout error')): the race settles
\* with the rejection if connect has not settled it; connect itself goes on
timeout(s) ==
    [s EXCEPT !.timer = FALSE,
              !.promise = IF @ = "pending" THEN "Timeout error" ELSE @]

timeoutFires ==
    /\ session.timer
    /\ session' = noted(timeout(session), "")
    /\ UNCHANGED storeVars

\* the await after ConnectAwaits[i]
following(at) ==
    LET i == CHOOSE j \in 1..Len(ConnectAwaits) : ConnectAwaits[j] = at
    IN  ConnectAwaits[i + 1]

\* the two addEventListener calls that end connect
lastListeners(s) ==
    IF s.glucoseMeasurement # "characteristic"
    THEN settle(s, "TypeError")
    ELSE LET t == [s EXCEPT !.listeners =
                       addEventListener(@, "glucoseMeasurement",
                                        registered("glucoseMeasurement"))]
         IN  IF t.racp # "characteristic"
             THEN settle(t, "TypeError")
             ELSE settle([t EXCEPT !.listeners =
                             addEventListener(@, "racp", registered("racp"))],
                         "resolved")

\* connect, resumed from the await it is suspended at
connectResumes(s, ok) ==
    LET at == s.connectAt
    IN  CASE at = "gatt.connect" ->
               IF ok THEN [s EXCEPT !.connected = TRUE, !.connectAt = following(at)]
               ELSE settle(s, "NetworkError")
          [] at = "getCharacteristic(glucose_measurement)" ->
               IF ok THEN [s EXCEPT !.glucoseMeasurement = "characteristic",
                                    !.connectAt = following(at)]
               ELSE settle(s, "NetworkError")
          [] at = "glucoseMeasurement.startNotifications" ->
               IF ok THEN [s EXCEPT !.notifying = @ \cup {"glucoseMeasurement"},
                                    !.connectAt = following(at)]
               ELSE settle(s, "NetworkError")
          [] at = "getCharacteristic(glucose_measurement_context)" ->
               IF ok THEN [s EXCEPT !.glucoseMeasurementContext = "characteristic",
                                    !.connectAt = following(at)]
               ELSE [s EXCEPT !.connectAt = "getCharacteristic(record_access_control_point)"]
          [] at = "glucoseMeasurementContext.startNotifications" ->
               IF ok /\ s.glucoseMeasurementContext = "characteristic"
               THEN [s EXCEPT !.notifying = @ \cup {"glucoseMeasurementContext"},
                              !.listeners =
                                 addEventListener(@, "glucoseMeasurementContext",
                                                  registered("glucoseMeasurementContext")),
                              !.connectAt = following(at)]
               ELSE [s EXCEPT !.notifying = IF ok THEN @ \cup {"glucoseMeasurementContext"}
                                            ELSE @,
                              !.connectAt = following(at)]
          [] at = "getCharacteristic(record_access_control_point)" ->
               IF ok THEN [s EXCEPT !.racp = "characteristic",
                                    !.connectAt = following(at)]
               ELSE settle(s, "NetworkError")
          [] at = "racp.startNotifications" ->
               IF ok THEN lastListeners([s EXCEPT !.notifying = @ \cup {"racp"}])
               ELSE settle(s, "NetworkError")
          [] OTHER ->
               IF ok THEN [s EXCEPT !.connectAt = following(at)]
               ELSE settle(s, "NetworkError")

connect(ok) ==
    /\ session.connectAt # ""
    /\ ok => (session.connectAt = "gatt.connect" \/ session.connected)
    /\ session' =
         connectResumes(
            [noted(session, "") EXCEPT
                !.late = IF session.promise = "Timeout error"
                         THEN @ \cup {session.connectAt} ELSE @,
                !.alone = @ /\ session.disconnectAt = ""],
            ok)
    /\ UNCHANGED storeVars

\* a disconnect that calls the transport whatever gatt.connected says
gattDisconnectsAlways(s) == TRUE

\* this.device && this.device.gatt && this.device.gatt.connected
gattDisconnects(s) == s.device /\ s.connected

\* the end of disconnect: this.device.gatt.disconnect() when connected
transportDisconnect(s) ==
    [s EXCEPT !.connected = FALSE,
              !.notifying = IF gattDisconnects(s) THEN {} ELSE @,
              !.transport = gattDisconnects(s),
              !.disconnectAt = "",
              !.done = "disconnect",
              !.threw = "",
              !.row = @ + 1]

\* the try blocks of disconnect from block b on, up to the next await: a
\* handle that is null or undefined throws a TypeError, which the block
\* catches; otherwise the listener is removed and stopNotifications awaited
RECURSIVE cleanup(_, _)
cleanup(s, b) ==
    IF b > Len(Characteristics)
    THEN transportDisconnect(s)
    ELSE IF s[Characteristics[b]] # "characteristic"
         THEN cleanup(s, b + 1)
         ELSE [s EXCEPT !.listeners =
                           removeEventListener(@, Characteristics[b],
                                               unregistered(Characteristics[b])),
                        !.disconnectAt = Characteristics[b]]

disconnect ==
    /\ session.disconnectAt = ""
    /\ session.row < MaxDisconnects
    /\ session' =
         IF ~session.device
         THEN [session EXCEPT !.done = "disconnect", !.transport = FALSE,
                              !.threw = "", !.row = @ + 1]
         ELSE cleanup([session EXCEPT !.done = "", !.transport = FALSE,
                                      !.alone = session.connectAt = ""], 1)
    /\ UNCHANGED storeVars

\* disconnect, resumed from the stopNotifications it awaits: on success the
\* handle is set to null, on failure the block's catch logs and goes on
stopNotifications(ok) ==
    /\ session.disconnectAt # ""
    /\ ok => session.connected
    /\ LET name == session.disconnectAt
           b == CHOOSE i \in 1..Len(Characteristics) : Characteristics[i] = name
           stopped == IF ok
                      THEN [session EXCEPT !.notifying = @ \ {name}, ![name] = "null"]
                      ELSE session
       IN  session' = cleanup([stopped EXCEPT !.done = ""], b + 1)
    /\ UNCHANGED storeVars

(***************************************************************************)
(* The decoders, called on their own: the buffers a device may send, laid  *)
(* out as the Glucose Profile lays them out, and cut short.                *)
(***************************************************************************)
\* a glucose measurement in the profile's layout for these flags
measurementBytes(flags, month, timeOffset, typeLocation) ==
    << flags >> \o setUint16(7) \o setUint16(2020) \o << month, 2, 3, 4, 5 >>
       \o (IF hasFlag(TIME_OFFSET_PRESENT, flags) THEN setUint16(timeOffset) ELSE << >>)
       \o (IF hasFlag(GLUCOSE_PRESENT, flags)
           THEN << 100, 176, typeLocation >> ELSE << >>)
       \o (IF hasFlag(STATUS_PRESENT, flags) THEN << 1, 0 >> ELSE << >>)

Prefixes(buf) == {SubSeq(buf, 1, n) : n \in 0..Len(buf)}

\* every value of the five flag bits, every length up to the full buffer
LengthBuffers ==
    UNION {Prefixes(measurementBytes(flags, 6, 60, 17)) : flags \in 0..31}

\* time offsets as the two bytes carry them: 0, +60, -60, -32768 minutes
TimeOffsets == {0, 60, 65476, 32768}

\* every month byte up to the firmware's 13, with and without a time offset
MonthBuffers ==
    {measurementBytes(flags, month, timeOffset, 17) :
        flags \in {0, TIME_OFFSET_PRESENT, TIME_OFFSET_PRESENT + GLUCOSE_PRESENT},
        month \in 1..13, timeOffset \in TimeOffsets}

\* every value of the type / sample location byte
TypeLocationBuffers ==
    {measurementBytes(flags, 6, 60, typeLocation) :
        flags \in {GLUCOSE_PRESENT, GLUCOSE_PRESENT + TIME_OFFSET_PRESENT},
        typeLocation \in 0..255}

MeasurementInputs == LengthBuffers \cup MonthBuffers \cup TypeLocationBuffers

\* a measurement context in the profile's layout for these flags: extended
\* flags, carbohydrate id and amount, meal
contextBytes(flags, carbUnits) ==
    << flags >> \o setUint16(7)
       \o (IF hasFlag(EXTENDED, flags) THEN << 224 >> ELSE << >>)
       \o (IF hasFlag(CARBS, flags) THEN << 3 >> \o setUint16(carbUnits) ELSE << >>)
       \o (IF hasFlag(MEAL, flags) THEN << 5 >> ELSE << >>)

\* every combination of the three flags the parser looks at
ContextFlagValues ==
    {e + c + m : e \in {0, EXTENDED}, c \in {0, CARBS}, m \in {0, MEAL}}

\* carbohydrate amounts whose two bytes differ from each other
CarbUnits == {50, 258, 1285, 61455}

ContextInputs ==
    UNION {Prefixes(contextBytes(flags, carbUnits)) :
              flags \in ContextFlagValues, carbUnits \in CarbUnits}

\* every value getUint16 can pass to getSFLOAT
SFLOATValues == 0..65535

\* the two units of the parser and one it never passes
UnitSelectors == Units \cup {"kg/L"}

\* a decoder about to be called on one of its inputs
InitDecoders ==
    /\ constructor
    /\ \/ \E value \in SFLOATValues, units \in UnitSelectors :
            call = [fn |-> "getSFLOAT", value |-> value, units |-> units,
                    state |-> "called"]
       \/ \E result \in MeasurementInputs :
            call = [fn |-> "parseGlucoseMeasurement", result |-> result,
                    state |-> "called"]
       \/ \E result \in ContextInputs :
            call = [fn |-> "parseMeasurementContext", result |-> result,
                    state |-> "called"]

returns(value) == call' = [call EXCEPT !.state = "returned"] @@ [returned |-> value]

throws(error) == call' = [call EXCEPT !.state = "threw"] @@ [threw |-> error]

objectVars == << self, records, contextRecords, heap, events, written,
                 measurementsSince, contextsSince, last, count, session >>

callGetSFLOAT ==
    /\ call.fn = "getSFLOAT" /\ call.state = "called"
    /\ LET value == getSFLOAT(call.value, call.units)
       IN  IF value.kind = "Error" THEN throws(value.message) ELSE returns(value)
    /\ UNCHANGED objectVars

callParseGlucoseMeasurement ==
    /\ call.fn = "parseGlucoseMeasurement" /\ call.state = "called"
    /\ IF measurementThrows(call.result)
       THEN throws("RangeError")
       ELSE returns(parseGlucoseMeasurement(call.result))
    /\ UNCHANGED objectVars

callParseMeasurementContext ==
    /\ call.fn = "parseMeasurementContext" /\ call.state = "called"
    /\ IF contextThrows(call.result)
       THEN throws("RangeError")
       ELSE returns(parseMeasurementContext(call.result))
    /\ UNCHANGED objectVars

(***************************************************************************)
(* Specifications.                                                         *)
(***************************************************************************)
\* one session object, connected, used by a caller that issues the four
\* commands at any time, with a device that notifies and indicates at any time
Next ==
    \/ \E this \in Constructed, ok \in BOOLEAN :
         count.steps < MaxSteps /\ getNumberOfRecords(this, ok)
    \/ \E this \in Constructed, seqNum \in DeltaSeqNums, ok \in BOOLEAN :
         count.steps < MaxSteps /\ getDeltaNumberOfRecords(this, seqNum, ok)
    \/ \E this \in Constructed, ok \in BOOLEAN :
         count.steps < MaxSteps /\ getAllRecords(this, ok)
    \/ \E this \in Constructed, seqNum \in DeltaSeqNums, ok \in BOOLEAN :
         count.steps < MaxSteps /\ getDeltaRecords(this, seqNum, ok)
    \/ \E dev \in Constructed, value \in MeasurementBuffers :
         count.steps < MaxSteps /\ handleNotifications(dev, value)
    \/ \E dev \in Constructed, value \in ContextBuffers :
         count.steps < MaxSteps /\ handleContextNotifications(dev, value)
    \/ \E dev \in Constructed, value \in RACPBuffers :
         count.steps < MaxSteps /\ handleRACP(dev, value)

Spec == Init /\ [][Next]_vars

\* the record store alone: a longer run of measurement notifications, with a
\* retrieve command in between
StoreBuffers ==
    {measurementBuffer(n) : n \in 1..MaxStoreSeqNum} \cup {shortMeasurementBuffer}

NextStore ==
    \/ \E dev \in Constructed, value \in StoreBuffers :
         count.steps < MaxStoreSteps /\ handleNotifications(dev, value)
    \/ \E this \in Constructed :
         count.steps < MaxStoreSteps /\ count.retrieves = 0 /\ getAllRecords(this, TRUE)

SpecStore == Init /\ [][NextStore]_vars

\* one session object from construction on: the caller scans, connects once
\* and disconnects, awaiting each disconnect; the transport resumes connect
\* and disconnect, and the timer of connectTimeout fires, at any time
NextSession ==
    \/ \E ok \in BOOLEAN : scan(ok)
    \/ connectTimeout
    \/ timeoutFires
    \/ \E ok \in BOOLEAN : connect(ok)
    \/ disconnect
    \/ \E ok \in BOOLEAN : stopNotifications(ok)

SpecSession == Init /\ [][NextSession]_vars

\* a measurement notification of any flags and length, on a store that
\* already holds a record
NextMeasurement ==
    \/ \E dev \in Constructed :
         count.steps = 0 /\ handleNotifications(dev, measurementBuffer(1))
    \/ \E dev \in Constructed, value \in MeasurementInputs :
         count.steps = 1 /\ handleNotifications(dev, value)

SpecMeasurement == Init /\ [][NextMeasurement]_vars

\* each decoder called once on each of its inputs
NextDecoders ==
    \/ callGetSFLOAT
    \/ callParseGlucoseMeasurement
    \/ callParseMeasurementContext

SpecDecoders == InitDecoders /\ [][NextDecoders]_vars

\* several session objects, each connected to its own device: a further
\* object is constructed at any time, the caller retrieves on any object and
\* each device notifies and indicates
ObjectRACPBuffers == { << 5, 0, 42, 0 >>, << 6, 0, 1, 1 >> }

NextObjects ==
    \/ \E o \in Sessions :
         /\ count.steps < MaxObjectSteps
         /\ o = Cardinality(Constructed) + 1
         /\ newBluetoothLE(o)
    \/ \E this \in Constructed :
         count.steps < MaxObjectSteps /\ getAllRecords(this, TRUE)
    \/ \E dev \in Constructed, seqNum \in SeqNums :
         count.steps < MaxObjectSteps /\ handleNotifications(dev, measurementBuffer(seqNum))
    \/ \E dev \in Constructed, seqNum \in SeqNums :
         count.steps < MaxObjectSteps
         /\ handleContextNotifications(dev, contextBuffer(seqNum))
    \/ \E dev \in Constructed, value \in ObjectRACPBuffers :
         count.steps < MaxObjectSteps /\ handleRACP(dev, value)

SpecObjects == Init /\ [][NextObjects]_vars

(***************************************************************************)
(* Properties.                                                             *)
(***************************************************************************)
\* the last step was a call of handler `op` that decoded its buffer
Handled(op) == last.op = op /\ last.threw # "RangeError"

\* the last step was a handleRACP call on an indication with this op code
RACPStep(opCode) == Handled("handleRACP") /\ racpObject(last.value).opCode = opCode

NoAdjacentDuplicate(s) == \A i \in 1..(Len(s) - 1) : s[i].seqNum # s[i + 1].seqNum

IsPrefix(s, t) == Len(s) <= Len(t) /\ SubSeq(t, 1, Len(s)) = s

\* s can be obtained from t by deleting elements
RECURSIVE IsSubsequence(_, _)
IsSubsequence(s, t) ==
    IF s = << >> THEN TRUE
    ELSE IF t = << >> THEN FALSE
    ELSE IF Head(s) = Head(t) THEN IsSubsequence(Tail(s), Tail(t))
    ELSE IsSubsequence(s, Tail(t))

RetrieveOps == {"getAllRecords", "getDeltaRecords"}
CountOps == {"getNumberOfRecords", "getDeltaNumberOfRecords"}

\* C1: handleNotifications appends the parsed measurement exactly when the
\* store is empty or its sequence number differs from that of the last stored
\* record, and otherwise leaves the store as it was; so no two adjacent stored
\* records share a sequence number, arrivals 1,1,2,3,3,3 are stored as 1,2,3
\* and arrivals 1,2,1 as 1,2,1.
C1_AdjacentOnlyDeduplication ==
    /\ Handled("handleNotifications") =>
         LET parsed == parseGlucoseMeasurement(last.value)
             before == last.recordsBefore
         IN  IF before = << >> \/ parsed.seqNum # before[Len(before)].seqNum
             THEN Records = Append(before, parsed)
             ELSE Records = before
    /\ NoAdjacentDuplicate(Records)
    /\ SeqNumsOf(measurementsSince) = << 1, 1, 2, 3, 3, 3 >>
         => SeqNumsOf(Records) = << 1, 2, 3 >>
    /\ SeqNumsOf(measurementsSince) = << 1, 2, 1 >>
         => SeqNumsOf(Records) = << 1, 2, 1 >>

\* the arrivals 1,1,2,3,3,3 have been handled and 1,2,3 is stored
C1_Witness ==
    /\ Handled("handleNotifications")
    /\ SeqNumsOf(measurementsSince) = << 1, 1, 2, 3, 3, 3 >>
    /\ SeqNumsOf(Records) = << 1, 2, 3 >>

\* C2: the stored measurements are a subsequence, in arrival order, of the
\* measurements decoded since the store was last reset; the stored contexts are
\* exactly the contexts decoded since then, in arrival order; and a step that
\* is not a retrieve command keeps what was stored as a prefix of the store.
C2_ArrivalOrder ==
    /\ IsSubsequence(Records, measurementsSince)
    /\ ContextRecords = contextsSince
    /\ last.op \notin RetrieveOps =>
         /\ IsPrefix(last.recordsBefore, Records)
         /\ IsPrefix(last.contextBefore, ContextRecords)

\* after a reset, a duplicated measurement was dropped and two contexts with
\* one sequence number were both kept
C2_Witness ==
    /\ count.retrieves > 0
    /\ SeqNumsOf(measurementsSince) = << 1, 1 >>
    /\ SeqNumsOf(Records) = << 1 >>
    /\ Handled("handleContextNotifications")
    /\ SeqNumsOf(ContextRecords) = << 2 >>

\* C3: after a retrieve command, when measurements with no two consecutive
\* equal sequence numbers have arrived and the device indicates op code 0x06
\* with operand 0x0101, exactly one event is dispatched, a data event whose
\* detail holds the store's two arrays: every measurement and every context
\* decoded since the command, in arrival order, and nothing older.
C3_DataEventCarriesRetrieval ==
    ( /\ RACPStep(6)
      /\ racpObject(last.value).operand = 257
      /\ count.retrieves > 0
      /\ NoAdjacentDuplicate(measurementsSince) )
    => /\ Len(last.dispatched) = 1
       /\ events[self] = last.eventsBefore \o last.dispatched
       /\ last.dispatched[1].type = "data"
       /\ DOMAIN last.dispatched[1].detail = {"records", "contextRecords"}
       /\ last.dispatched[1].detail.records = records[self]
       /\ last.dispatched[1].detail.contextRecords = contextRecords[self]
       /\ heap[last.dispatched[1].detail.records] = measurementsSince
       /\ heap[last.dispatched[1].detail.contextRecords] = contextsSince

\* a retrieve command, then two measurements and a context, then the success
\* indication, with an older measurement received before the command
C3_Witness ==
    /\ RACPStep(6)
    /\ racpObject(last.value).operand = 257
    /\ count.retrieves > 0
    /\ Len(heap[1]) > 0
    /\ SeqNumsOf(measurementsSince) = << 2, 1 >>
    /\ Len(events[self]) = 1
    /\ SeqNumsOf(heap[events[self][1].detail.records]) = << 2, 1 >>

CommandOps == RetrieveOps \cup CountOps

\* the event a command asks for: op code 0x04 a count, op code 0x01 the records
eventOf(cmd) == IF cmd[1] = 4 THEN "numberOfRecords" ELSE "data"

\* C4: an indication that answers a pending command dispatches exactly one
\* event, of the kind the command asks for, unless the handler throws; and an
\* indication that answers no command dispatches none.
C4_OneEventPerTransaction ==
    last.op = "handleRACP" =>
      /\ events[self] = last.eventsBefore \o last.dispatched
      /\ IF last.pending = << >>
         THEN last.dispatched = << >>
         ELSE \/ last.threw # "" /\ last.dispatched = << >>
              \/ /\ last.threw = ""
                 /\ Len(last.dispatched) = 1
                 /\ last.dispatched[1].type = eventOf(Head(last.pending))

\* C5 as stated: at most one command is pending, and a command method called
\* while one is pending neither writes nor resets the store.
C5_NoCommandWhilePending ==
    /\ \A o \in Sessions : Len(written[o]) <= 1
    /\ (last.op \in CommandOps /\ last.pending # << >>) =>
         /\ written[last.this] = last.pending
         /\ Records = last.recordsBefore
         /\ ContextRecords = last.contextBefore

\* C5, amended: the command methods keep no pending state.  Each call writes
\* its command at once, whether or not the device still holds an earlier one
\* (a rejected write leaves the device's commands as they were), and the two
\* retrieve commands reset the store even then; one command is pending after
\* a call made when none was.
C5_CommandsAreNotSerialized ==
    last.op \in CommandOps =>
      /\ last.threw = "" => written[last.this] = Append(last.pending, last.value)
      /\ last.threw # "" => written[last.this] = last.pending
      /\ last.op \in RetrieveOps => Records = << >> /\ ContextRecords = << >>
      /\ (last.pending = << >> /\ last.threw = "") => Len(written[last.this]) = 1

\* a retrieve command issued while a command was pending: two are pending
\* and the store, which held a measurement, is empty
C5_Witness ==
    /\ last.op \in RetrieveOps
    /\ last.pending # << >>
    /\ Len(written[last.this]) = 2
    /\ last.recordsBefore # << >>
    /\ Records = << >>

C7_OtherOperandIsAnError ==
    (RACPStep(6) /\ racpObject(last.value).operand \notin {257, 1537}) =>
      /\ last.threw # ""
      /\ last.dispatched = << >>

\* C8: an indication whose op code is neither 0x05 nor 0x06, whatever is
\* pending, makes the handler throw its unrecognized-op-code error; no event
\* is dispatched and the store is as it was.
C8_UnrecognizedOpCodeThrows ==
    (Handled("handleRACP") /\ racpObject(last.value).opCode \notin {5, 6}) =>
      /\ last.threw = "Unrecognized op code"
      /\ last.dispatched = << >>
      /\ events[self] = last.eventsBefore
      /\ Records = last.recordsBefore
      /\ ContextRecords = last.contextBefore

\* op code 0x09 arrives while a command is pending and the store holds records
C8_Witness ==
    /\ RACPStep(9)
    /\ last.pending # << >>
    /\ last.threw = "Unrecognized op code"
    /\ Records # << >>
    /\ ContextRecords # << >>

\* C9: an indication with op code 0x05 dispatches one numberOfRecords event
\* whose detail is byte 2 + 256 * byte 3 of the indication (42 for operand
\* 42), leaves both sequences as they were, and answers the pending command,
\* so that none is pending when one was.
C9_CountEvent ==
    RACPStep(5) =>
      /\ last.threw = ""
      /\ Len(last.dispatched) = 1
      /\ events[self] = last.eventsBefore \o last.dispatched
      /\ last.dispatched[1].type = "numberOfRecords"
      /\ last.dispatched[1].detail = [number |-> last.value[3] + 256 * last.value[4]]
      /\ last.value = << 5, 0, 42, 0 >> => last.dispatched[1].detail.number = 42
      /\ Records = last.recordsBefore
      /\ ContextRecords = last.contextBefore
      /\ Len(last.pending) <= 1 => written[last.this] = << >>

\* getNumberOfRecords answered with operand 42, the store holding a record
C9_Witness ==
    /\ RACPStep(5)
    /\ last.pending = << << 4, 1 >> >>
    /\ written[last.this] = << >>
    /\ events[self] = << numberOfRecordsEvent(42) >>
    /\ Records # << >>

\* C10: an indication with op code 0x06 and operand 0x0601 dispatches one data
\* event whose detail has the shape of a success result, with a measurement
\* list and a context list that are present and empty.
C10_EmptyResultHasResultShape ==
    (RACPStep(6) /\ racpObject(last.value).operand = 1537) =>
      /\ Len(last.dispatched) = 1
      /\ last.dispatched[1].type = "data"
      /\ DOMAIN last.dispatched[1].detail = {"records", "contextRecords"}
      /\ heap[last.dispatched[1].detail.records] = << >>
      /\ heap[last.dispatched[1].detail.contextRecords] = << >>

(***************************************************************************)
(* The connection lifecycle.                                               *)
(***************************************************************************)
\* C11: once connectTimeout has failed with the timeout error, connect is
\* resumed from none of its awaits, and the session has either none or all
\* of its characteristics notifying and with their listener attached.
C11_TimeoutCancelsConnect ==
    session.promise = "Timeout error" =>
      /\ session.late = {}
      /\ session.notifying \in {{}, CharacteristicNames}
      /\ Attached(session) \in {{}, CharacteristicNames}

\* C12: a disconnect that ran with no connect in flight completes without an
\* error, with the transport disconnected, no characteristic notifying and
\* none of the listeners connect registered still attached.
C12_DisconnectDetachesListeners ==
    (session.done = "disconnect" /\ session.alone) =>
      /\ session.threw = ""
      /\ ~session.connected
      /\ session.notifying = {}
      /\ session.listeners = {}

\* C13: a disconnect that completes right after another disconnect raises no
\* error and does not call the transport disconnect.
C13_SecondDisconnectIsNoOp ==
    (session.done = "disconnect" /\ session.row >= 2) =>
      /\ session.threw = ""
      /\ ~session.transport

\* a second disconnect on a session that was connected, whose three handles
\* the first disconnect set to null
C13_Witness ==
    /\ session.done = "disconnect"
    /\ session.row = 2
    /\ session.promise = "resolved"
    /\ \A i \in 1..Len(Characteristics) : session[Characteristics[i]] = "null"
    /\ ~session.connected
    /\ ~session.transport

(***************************************************************************)
(* The decoders.                                                           *)
(***************************************************************************)
\* the length the flags of a measurement require
requiredLength(flags) ==
    10 + (IF hasFlag(TIME_OFFSET_PRESENT, flags) THEN 2 ELSE 0)
       + (IF hasFlag(GLUCOSE_PRESENT, flags) THEN 3 ELSE 0)
       + (IF hasFlag(GLUCOSE_PRESENT, flags) /\ hasFlag(STATUS_PRESENT, flags)
          THEN 2 ELSE 0)

\* C14: a measurement notification shorter than its flags require makes the
\* handler throw and leaves the stored measurements as they were; one of
\* exactly the required length is parsed, and with the glucose flag alone
\* the record has a value and no status.
C14_ShortMeasurementFails ==
    (last.op = "handleNotifications" /\ count.steps = 2) =>
      LET value == last.value
      IN  /\ (Len(value) = 0 \/ Len(value) < requiredLength(value[1])) =>
                /\ last.threw = "RangeError"
                /\ Records = last.recordsBefore
          /\ (Len(value) > 0 /\ Len(value) = requiredLength(value[1])) =>
                /\ last.threw = ""
                /\ measurementsSince # << >>
                /\ LET record == measurementsSince[Len(measurementsSince)]
                   IN  /\ record.flags = value[1]
                       /\ record.seqNum = value[2] + 256 * value[3]
                       /\ value[1] = GLUCOSE_PRESENT =>
                            /\ "value" \in DOMAIN record
                            /\ "status" \notin DOMAIN record

\* a notification with time offset, glucose and status, one byte short, on a
\* store that holds a record
C14_Witness ==
    /\ last.op = "handleNotifications"
    /\ Len(last.value) = 16
    /\ last.value[1] = TIME_OFFSET_PRESENT + GLUCOSE_PRESENT + STATUS_PRESENT
    /\ last.threw = "RangeError"
    /\ Len(last.recordsBefore) = 1
    /\ Records = last.recordsBefore

\* the five reserved patterns
ReservedSFLOAT == {2046, 2047, 2048, 2049, 2050}

\* 0x07FF, 0x0800, 0x0801: NaN; 0x07FE: +Infinity; 0x0802: -Infinity
sentinel(value) ==
    CASE value = 2046 -> "+Infinity"
      [] value = 2050 -> "-Infinity"
      [] OTHER -> "NaN"

SFLOATCalled == call.fn = "getSFLOAT" /\ call.state # "called"

\* C15: on a reserved pattern getSFLOAT returns the pattern's sentinel,
\* whatever the unit selector.
C15_ReservedPatternsGiveSentinels ==
    (SFLOATCalled /\ call.value \in ReservedSFLOAT) =>
      /\ call.state = "returned"
      /\ call.returned = [kind |-> sentinel(call.value)]

C15_Witness ==
    /\ SFLOATCalled
    /\ call.value = 2050
    /\ call.units = "kg/L"
    /\ call.state = "returned"
    /\ call.returned.kind = "-Infinity"

\* C16 as stated: with a unit selector other than mg/dL and mmol/L getSFLOAT
\* fails for every value.
C16_InvalidUnitAlwaysFails ==
    (SFLOATCalled /\ call.units \notin Units) => call.state = "threw"

\* C16, amended: with such a unit selector getSFLOAT fails with the illegal
\* units error for every value but the five reserved patterns, for which it
\* returns the sentinel.
C16_InvalidUnitFailsUnlessReserved ==
    (SFLOATCalled /\ call.units \notin Units) =>
      IF call.value \in ReservedSFLOAT
      THEN call.state = "returned" /\ call.returned.kind = sentinel(call.value)
      ELSE call.state = "threw" /\ call.threw = "Illegal units for glucose value"

C16_Witness ==
    /\ SFLOATCalled
    /\ call.units = "kg/L"
    /\ call.value = 10
    /\ call.state = "threw"

\* an n-bit field read as a two's-complement integer
signed(field, bits) ==
    IF field >= 2 ^ (bits - 1) THEN field - 2 ^ bits ELSE field

\* C17: on any other pattern, with mg/dL or mmol/L, getSFLOAT returns
\* m * 10^(e + b): e the signed top 4 bits, m the signed low 12 bits, b 5 for
\* mg/dL and 3 for mmol/L.
C17_NumericDecoding ==
    (SFLOATCalled /\ call.value \notin ReservedSFLOAT /\ call.units \in Units) =>
      /\ call.state = "returned"
      /\ call.returned =
           [kind |-> "number",
            mantissa |-> signed(call.value % 4096, 12),
            exponent |-> signed(call.value \div 4096, 4)
                         + (IF call.units = "mg/dL" THEN 5 ELSE 3)]
      /\ (call.value = 10 /\ call.units = "mg/dL") =>
           call.returned.mantissa = 10 /\ call.returned.exponent = 5
      /\ (call.value = 61640 /\ call.units = "mmol/L") =>
           call.returned.mantissa = 200 /\ call.returned.exponent = 2

\* 0xF0C8 with mmol/L
C17_Witness ==
    /\ SFLOATCalled
    /\ call.value = 61640
    /\ call.units = "mmol/L"
    /\ call.state = "returned"
    /\ call.returned.mantissa = 200
    /\ call.returned.exponent = 2

MeasurementParsed == call.fn = "parseGlucoseMeasurement" /\ call.state = "returned"

\* the two buffers differ in the time offset bytes only
DifferInOffsetOnly(a, b) ==
    /\ Len(a) = Len(b)
    /\ \A i \in 1..Len(a) : i \notin {11, 12} => a[i] = b[i]

\* C18: the timestamp of a parsed measurement is built from the base
\* date-time bytes with month 13 replaced by 1; the signed time offset is
\* stored in the payload, and buffers that differ in it alone get the same
\* timestamp.
C18_TimestampIsBaseDateTime ==
    MeasurementParsed =>
      LET value == call.result
          record == call.returned
      IN  /\ record.timestamp =
                << value[4] + 256 * value[5],
                   IF value[6] = 13 THEN 1 ELSE value[6],
                   value[7], value[8], value[9], value[10] >>
          /\ hasFlag(TIME_OFFSET_PRESENT, value[1]) =>
                /\ record.payload.timeOffset = signed(value[11] + 256 * value[12], 16)
                /\ \A other \in MonthBuffers :
                      DifferInOffsetOnly(value, other) =>
                         parseGlucoseMeasurement(other).timestamp = record.timestamp

\* month 13 and a time offset of -60 minutes
C18_Witness ==
    /\ MeasurementParsed
    /\ hasFlag(TIME_OFFSET_PRESENT, call.result[1])
    /\ call.result[6] = 13
    /\ call.returned.timestamp[2] = 1
    /\ call.returned.payload.timeOffset = -60

\* C19: every optional field of a context record is read from the byte after
\* the fields before it: 1 byte of extended flags, 3 bytes of carbohydrate
\* id and amount, then the meal.
C19_ContextFieldsAreAligned ==
    (call.fn = "parseMeasurementContext" /\ call.state = "returned") =>
      LET value == call.result
          record == call.returned
          carbAt == 3 + (IF hasFlag(EXTENDED, value[1]) THEN 1 ELSE 0)
          mealAt == carbAt + (IF hasFlag(CARBS, value[1]) THEN 3 ELSE 0)
      IN  /\ hasFlag(EXTENDED, value[1]) => record.extended = value[3 + 1]
          /\ hasFlag(CARBS, value[1]) =>
                /\ record.carbID = value[carbAt + 1]
                /\ record.carbUnits = value[carbAt + 2] + 256 * value[carbAt + 3]
          /\ hasFlag(MEAL, value[1]) =>
                /\ Len(value) > mealAt
                /\ record.meal = value[mealAt + 1]

\* C20: the sample type is the high nibble and the sample location the low
\* nibble of the byte after the glucose value.
C20_TypeAndLocationNibbles ==
    (MeasurementParsed /\ hasFlag(GLUCOSE_PRESENT, call.result[1])) =>
      LET at == 12 + (IF hasFlag(TIME_OFFSET_PRESENT, call.result[1]) THEN 2 ELSE 0)
          byte == call.result[at + 1]
      IN  /\ call.returned.type = byte \div 16
          /\ call.returned.location = byte % 16

(***************************************************************************)
(* Several session objects.                                                *)
(***************************************************************************)
\* C21: a call on an object other than the one the module-level self refers
\* to leaves the store and the events of self's object alone: a notification
\* on its device stores nothing there, an indication on its device
\* dispatches nothing there, and its retrieve command clears nothing there.
C21_SessionStateIsPerObject ==
    (last.this # self /\ last.threw = "") =>
      /\ last.op \in {"handleNotifications", "handleContextNotifications"} =>
           /\ Records = last.recordsBefore
           /\ ContextRecords = last.contextBefore
      /\ last.op = "handleRACP" => events[self] = last.eventsBefore
      /\ last.op \in RetrieveOps =>
           /\ Records = last.recordsBefore
           /\ ContextRecords = last.contextBefore

(***************************************************************************)
(* The result a data event delivers.                                       *)
(***************************************************************************)
\* the arrays that the details of the data events dispatched on object o so
\* far refer to
DeliveredOn(o) ==
    UNION {{events[o][i].detail.records, events[o][i].detail.contextRecords} :
              i \in {j \in 1..Len(events[o]) : "records" \in DOMAIN events[o][j].detail}}

Delivered == UNION {DeliveredOn(o) : o \in Sessions}

\* C22: in every step each delivered array keeps its records, in order; it
\* changes only by one record appended by a notification handler while it is
\* still the store's array; and a retrieve command leaves it as it is and
\* gives the store arrays that are none of the delivered ones.
C22_DeliveredResultOnlyGrows ==
    [][\A ref \in Delivered :
          /\ IsPrefix(heap[ref], heap'[ref])
          /\ heap'[ref] # heap[ref] =>
                /\ last'.op \in {"handleNotifications", "handleContextNotifications"}
                /\ ref \in {records[self], contextRecords[self]}
                /\ Len(heap'[ref]) = Len(heap[ref]) + 1
          /\ last'.op \in RetrieveOps =>
                /\ heap'[ref] = heap[ref]
                /\ ref \notin {records'[self'], contextRecords'[self']}]_vars

\* a retrieve command has just replaced the store, and the result delivered
\* before it still holds its two measurements
C22_Witness ==
    /\ last.op \in RetrieveOps
    /\ Records = << >>
    /\ \E i \in 1..Len(events[self]) :
          /\ events[self][i].type = "data"
          /\ "records" \in DOMAIN events[self][i].detail
          /\ events[self][i].detail.records # records[self]
          /\ SeqNumsOf(heap[events[self][i].detail.records]) = << 1, 2 >>
          /\ last.recordsBefore = heap[events[self][i].detail.records]

====
